---------------------------- MODULE Spec2Model ----------------------------
(***************************************************************************)
(* A model of src/models.py: the shared BaseModel constructor and the      *)
(* three classifiers built on it (LinearModel, kNNModel, RBFModel).        *)
(*                                                                         *)
(* A behaviour is one use of the module: it is imported, one model is      *)
(* constructed, and one method is called on the instance.  No method       *)
(* changes the instance, so one call after construction covers every call  *)
(* sequence.                                                               *)
(*                                                                         *)
(* Representation.                                                         *)
(*  - An array-like argument is a record with ok and shape: ok says        *)
(*    whether numpy can make a homogeneous float array of it, shape is the *)
(*    shape                                                                *)
(*    of that array, and rows (of a matrix) or es (of a vector) are its    *)
(*    contents.  Entries are integers; conversion to dtype float keeps     *)
(*    their values.                                                        *)
(*  - Python's None is the empty sequence <<>> where the other values are  *)
(*    sequences or numbers wrapped as <<v>>, and the string "None" where   *)
(*    the other values are callables (named by strings).                   *)
(*  - An exception is a record [type, line]: the exception's class and     *)
(*    the line of src/models.py that raises it.                            *)
(*  - sqrt(n) is kept exactly, as the record [sqrt |-> n]; the value of a  *)
(*    kernel callable is kept as the application term [kern, sqrt, r]      *)
(*    standing for kern(sqrt(n) / r).                                      *)
(***************************************************************************)
EXTENDS Integers, Sequences, FiniteSets, TLC

(***************************************************************************)
(* Bounds of the model and the sets the inputs are drawn from.             *)
(***************************************************************************)
MaxRows == 2        \* most rows of a training matrix / entries of a vector
MaxBatch == 2       \* most rows of a matrix passed to a batch method

Coord == {-1, 1}            \* coordinates of training points
QueryCoord == {-1, 0, 1}    \* coordinates of query points, entries of weights
BatchCoord == {-1, 0}       \* coordinates of the rows of a batch
Labels == {-1, 1}           \* the label alphabet
Dims == {0, 1}              \* feature dimensions of training matrices
RegCoeffs == {0, 1}         \* regularization coefficients r of LinearModel
IterCounts == {0, 2}        \* n_iter of LinearModel
Scalings == {1, 2}          \* scaling constants r of RBFModel
FeatTransNames == {"None", "square", "checked"}
KernNames == {"None", "inverse"}

None == <<>>
Some(v) == <<v>>

NoError == [type |-> "none", line |-> 0]
Raise(t, l) == [type |-> t, line |-> l]

NoObj == [cls |-> "none"]

(***************************************************************************)
(* Arithmetic on vectors of integers.                                      *)
(***************************************************************************)
RECURSIVE SumSeq(_)
SumSeq(s) == IF s = <<>> THEN 0 ELSE Head(s) + SumSeq(Tail(s))

Abs(a) == IF a < 0 THEN -a ELSE a

Dot(u, v) == SumSeq([i \in 1..Len(u) |-> u[i] * v[i]])

NormSq(v) == Dot(v, v)

\* numpy broadcasting of two 1-dimensional operands: equal lengths, or one
\* of them of length 1 stretched to the other's length
CanBroadcast(u, v) == Len(u) = Len(v) \/ Len(u) = 1 \/ Len(v) = 1

BroadcastLen(u, v) ==
    IF Len(u) = Len(v) THEN Len(u) ELSE IF Len(u) = 1 THEN Len(v) ELSE Len(u)

At(u, i) == IF Len(u) = 1 THEN u[1] ELSE u[i]

\* u - v on 1-dimensional arrays
VecSub(u, v) == [i \in 1..BroadcastLen(u, v) |-> At(u, i) - At(v, i)]

\* np.linalg.norm of a vector: sqrt(v . v), kept exactly
Norm(v) == [sqrt |-> NormSq(v)]

(***************************************************************************)
(* Array-like arguments.                                                   *)
(***************************************************************************)
SeqsUpTo(S, n) == UNION {[1..m -> S] : m \in 0..n}

Matrix(rows, d) == [ok |-> TRUE, shape |-> <<Len(rows), d>>, rows |-> rows]
Vector(es) == [ok |-> TRUE, shape |-> <<Len(es)>>, es |-> es]
Scalar(c) == [ok |-> TRUE, shape |-> <<>>, c |-> c]
Cube == [ok |-> TRUE, shape |-> <<1, 1, 1>>, cube |-> 1]
Ragged == [ok |-> FALSE, shape |-> <<2>>, ragged |-> << <<1>>, <<1, 0>> >>]

Points(d) == [1..d -> Coord]
QueryPoints == [1..1 -> QueryCoord]
Matrices(d, n) == {Matrix(rows, d) : rows \in SeqsUpTo(Points(d), n)}

\* what a caller may pass as X: matrices, and arguments of the wrong rank
XArgs ==
    (UNION {Matrices(d, MaxRows) : d \in Dims})
        \cup {Vector(es) : es \in SeqsUpTo({0}, MaxRows)}
        \cup {Scalar(0), Cube, Ragged}

\* what a caller may pass as y: label vectors, and arguments of the wrong rank
YArgs ==
    {Vector(es) : es \in SeqsUpTo(Labels, MaxRows)}
        \cup {Scalar(1), Matrix(<< <<1>> >>, 1)}

(***************************************************************************)
(* Feature transformations a caller may supply: callables on one point.    *)
(* "square" squares every coordinate; "checked" returns the point and      *)
(* raises on a negative coordinate.                                        *)
(***************************************************************************)
FeatTransRaises(ft, x) == ft = "checked" /\ \E i \in 1..Len(x) : x[i] < 0

FeatTransApply(ft, x) ==
    IF ft = "square" THEN [i \in 1..Len(x) |-> x[i] * x[i]] ELSE x

\* BaseModel.__init__ without the comparison of line 56
BaseModelInit_NoLengthCheck(X, y, feat_trans) ==
    IF ~X.ok THEN [raised |-> Raise("ValueError", 47), self |-> NoObj]
    ELSE IF ~y.ok THEN [raised |-> Raise("ValueError", 48), self |-> NoObj]
    ELSE IF Len(X.shape) # 2
        THEN [raised |-> Raise("ValueError", 51), self |-> NoObj]
    ELSE IF Len(y.shape) # 1
        THEN [raised |-> Raise("ValueError", 54), self |-> NoObj]
    ELSE [raised |-> NoError,
          self |-> [X |-> X.rows, y |-> y.es, feat_trans |-> feat_trans]]

(***************************************************************************)
(* BaseModel.__init__(X, y, feat_trans): the outcome of the call, as       *)
(* [raised, self].  `except e` names no exception class: e is unbound, so  *)
(* matching a raised exception against it raises NameError.                *)
(***************************************************************************)
BaseModelInit(X, y, feat_trans) ==
    IF ~X.ok THEN [raised |-> Raise("ValueError", 47), self |-> NoObj]
    ELSE IF ~y.ok THEN [raised |-> Raise("ValueError", 48), self |-> NoObj]
    ELSE IF Len(X.shape) # 2
        THEN [raised |-> Raise("ValueError", 51), self |-> NoObj]
    ELSE IF Len(y.shape) # 1
        THEN [raised |-> Raise("ValueError", 54), self |-> NoObj]
    ELSE IF X.shape[1] # y.shape[1]
        THEN [raised |-> Raise("ValueError", 57), self |-> NoObj]
    ELSE IF feat_trans # "None"
        THEN IF \E i \in 1..Len(X.rows) : FeatTransRaises(feat_trans, X.rows[i])
             THEN [raised |-> Raise("NameError", 63), self |-> NoObj]
             ELSE [raised |-> NoError,
                   self |-> [X |-> [i \in 1..Len(X.rows) |->
                                       FeatTransApply(feat_trans, X.rows[i])],
                             y |-> y.es,
                             feat_trans |-> feat_trans]]
    ELSE [raised |-> NoError,
          self |-> [X |-> X.rows, y |-> y.es, feat_trans |-> feat_trans]]

(***************************************************************************)
(* kNNModel.                                                               *)
(***************************************************************************)
kNNModelInit(X, y, k) ==
    LET base == BaseModelInit(X, y, "None")
    IN  IF base.raised # NoError THEN base
        ELSE [raised |-> NoError,
              self |-> [cls |-> "kNNModel", X |-> base.self.X,
                        y |-> base.self.y,
                        feat_trans |-> base.self.feat_trans, k |-> k]]

_euclidean_distance(x1, x2) == Norm(VecSub(x1, x2))

\* a comparison of the distances alone
TupleLess_DistanceOnly(a, b) == a[1].sqrt < b[1].sqrt

\* Python's < on the tuples (distance, label): the first components decide
\* unless they are equal, and then the second components do
TupleLess(a, b) ==
    \/ a[1].sqrt < b[1].sqrt
    \/ a[1].sqrt = b[1].sqrt /\ a[2] < b[2]

\* sorted(): a stable sort.  Insert puts t behind every element that is not
\* greater than it.
RECURSIVE Insert(_, _)
Insert(t, s) ==
    IF s = <<>> THEN <<t>>
    ELSE IF TupleLess(t, Head(s)) THEN <<t>> \o s
    ELSE <<Head(s)>> \o Insert(t, Tail(s))

RECURSIVE Sorted(_)
Sorted(s) ==
    IF s = <<>> THEN <<>>
    ELSE Insert(s[Len(s)], Sorted(SubSeq(s, 1, Len(s) - 1)))

\* distances[:k + 1]
Take_OneMore(s, k) == SubSeq(s, 1, IF k + 1 < Len(s) THEN k + 1 ELSE Len(s))

\* distances[:k] for k >= 0
Take(s, k) == SubSeq(s, 1, IF k < Len(s) THEN k ELSE Len(s))

\* kNNModel.classify(x, k) as [raised, ret]
kNNClassify(self, x, k) ==
    LET k_ == IF k # None THEN k[1] ELSE self.k
    IN  IF self.feat_trans # "None" /\ FeatTransRaises(self.feat_trans, x)
        THEN [raised |-> Raise("NameError", 373), ret |-> 0]
        ELSE
        LET x_ == IF self.feat_trans # "None"
                  THEN FeatTransApply(self.feat_trans, x) ELSE x
        IN  IF \E i \in 1..Len(self.X) : ~CanBroadcast(x_, self.X[i])
            THEN [raised |-> Raise("ValueError", 342), ret |-> 0]
            ELSE
            LET distances ==
                    Sorted([i \in 1..Len(self.X) |->
                        <<_euclidean_distance(x_, self.X[i]), self.y[i]>>])
                nearest_neighbors == Take(distances, k_)
                votes == [i \in 1..Len(nearest_neighbors) |->
                             nearest_neighbors[i][2]]
            IN  [raised |-> NoError,
                 ret |-> IF SumSeq(votes) >= 0 THEN 1 ELSE -1]

\* kNNModel.classify_all(X, k) as [raised, ret]: classify row by row; the
\* first exception, if any, ends the call
kNNClassifyAll(self, X, k) ==
    LET k_ == IF k # None THEN Some(k[1]) ELSE Some(self.k)
        each == [i \in 1..Len(X.rows) |-> kNNClassify(self, X.rows[i], k_)]
        bad == {i \in 1..Len(X.rows) : each[i].raised # NoError}
    IN  IF bad # {}
        THEN [raised |-> each[CHOOSE i \in bad : \A j \in bad : i <= j].raised,
              ret |-> <<>>]
        ELSE [raised |-> NoError,
              ret |-> [i \in 1..Len(X.rows) |-> each[i].ret]]

\* classification_error without the division by 2 of line 431
kNNClassificationError_NoHalving(self, X, y, k) ==
    LET k_ == IF k # None THEN Some(k[1]) ELSE Some(self.k)
        all == kNNClassifyAll(self, X, k_)
        diff == VecSub(all.ret, y.es)
    IN  [raised |-> NoError,
         ret |-> [num |-> SumSeq([i \in 1..Len(diff) |-> Abs(diff[i])]),
                  den |-> Len(y.es)]]

\* kNNModel.classification_error(X, y, k) as [raised, ret]; ret is the
\* quotient [num, den] of line 431, which numpy evaluates to nan when both
\* are 0
kNNClassificationError(self, X, y, k) ==
    LET k_ == IF k # None THEN Some(k[1]) ELSE Some(self.k)
        all == kNNClassifyAll(self, X, k_)
    IN  IF all.raised # NoError
        THEN [raised |-> all.raised, ret |-> [num |-> 0, den |-> 0]]
        ELSE IF ~CanBroadcast(all.ret, y.es)
        THEN [raised |-> Raise("ValueError", 431),
              ret |-> [num |-> 0, den |-> 0]]
        ELSE
        LET diff == VecSub(all.ret, y.es)
            halves == [i \in 1..Len(diff) |-> Abs(diff[i]) \div 2]
        IN  [raised |-> NoError,
             ret |-> [num |-> SumSeq(halves), den |-> Len(y.es)]]

(***************************************************************************)
(* LinearModel.  Matrices are sequences of rows.  The closed form of line  *)
(* 178 is computed exactly: the inverse of A is adj(A) / det(A), so a      *)
(* weight vector is the record [num, den] of an integer vector and the     *)
(* determinant that divides it.                                            *)
(***************************************************************************)
Sign(j) == IF j % 2 = 0 THEN 1 ELSE -1

DropAt(s, i) == SubSeq(s, 1, i - 1) \o SubSeq(s, i + 1, Len(s))

Minor(A, i, j) == [p \in 1..(Len(A) - 1) |-> DropAt(DropAt(A, i)[p], j)]

RECURSIVE Det(_)
Det(A) ==
    IF Len(A) = 0 THEN 1
    ELSE SumSeq([j \in 1..Len(A) |->
                    Sign(1 + j) * A[1][j] * Det(Minor(A, 1, j))])

Adjugate(A) ==
    [i \in 1..Len(A) |-> [j \in 1..Len(A) |->
        Sign(i + j) * Det(Minor(A, j, i))]]

\* A @ B for A of shape (p, q) and B of shape (q, c)
MatMul(A, B, c) ==
    [i \in 1..Len(A) |-> [j \in 1..c |->
        SumSeq([k \in 1..Len(A[i]) |-> A[i][k] * B[k][j]])]]

\* A @ v for a matrix A and a vector v
MatVec(A, v) == [i \in 1..Len(A) |-> Dot(A[i], v)]

\* X.T for X of shape (Len(X), n)
Transpose(X, n) == [j \in 1..n |-> [i \in 1..Len(X) |-> X[i][j]]]

\* A + r * np.eye(n)
AddRidge(A, r) ==
    [i \in 1..Len(A) |-> [j \in 1..Len(A) |->
        A[i][j] + (IF i = j THEN r ELSE 0)]]

\* LinearModel._calc_w_lin as [raised, w].  self.X has at least one row
\* here (line 122 lets no other matrix through), so its first row gives
\* the number of columns.
_calc_w_lin(self) ==
    LET n == Len(self.X[1])
        Xt == Transpose(self.X, n)
        A == AddRidge(MatMul(Xt, self.X, n), self.r)
    IN  IF Det(A) = 0
        THEN [raised |-> Raise("LinAlgError", 178),
              w |-> [num |-> <<>>, den |-> 0]]
        ELSE [raised |-> NoError,
              w |-> [num |-> MatVec(MatMul(Adjugate(A), Xt, Len(self.X)),
                                    self.y),
                     den |-> Det(A)]]

\* LinearModel._calc_E_in(w) for a weight vector w that is an array, as
\* [raised, E].  `w != None` compares the array entry by entry, and the
\* truth value of an array of more than one entry raises ValueError.  E is
\* the quotient [num, den].
_calc_E_in(self, w) ==
    IF Len(w.num) > 1
    THEN [raised |-> Raise("ValueError", 196), E |-> [num |-> 0, den |-> 0]]
    ELSE
    LET pred == [i \in 1..Len(self.X) |->
                    IF Dot(self.X[i], w.num) * w.den >= 0 THEN 1 ELSE -1]
        miss == SumSeq([i \in 1..Len(self.X) |->
                           Abs(pred[i] - self.y[i]) \div 2])
    IN  [raised |-> NoError,
         E |-> [num |-> miss * w.den * w.den + self.r * Dot(w.num, w.num),
                den |-> w.den * w.den]]

Unbound == [w_ |-> None, E_ |-> None]

\* LinearModel._train_model as [raised, w, frame]; frame holds the locals
\* w_ and E_ (None while unbound) when the call ends.  Line 148 reads
\* self.w, which __init__ assigns only from this method's result, and line
\* 149 reads the unbound name n_iter: no call gets past them to the loop.
_train_model(self) ==
    LET lin == _calc_w_lin(self)
    IN  IF lin.raised # NoError
        THEN [raised |-> lin.raised, w |-> None, frame |-> Unbound]
        ELSE
        LET w_ == lin.w
            ein == _calc_E_in(self, w_)
        IN  IF ein.raised # NoError
            THEN [raised |-> ein.raised, w |-> None,
                  frame |-> [w_ |-> Some(w_), E_ |-> None]]
            ELSE IF "w" \notin DOMAIN self
            THEN [raised |-> Raise("AttributeError", 148), w |-> None,
                  frame |-> [w_ |-> Some(w_), E_ |-> Some(ein.E)]]
            ELSE [raised |-> Raise("NameError", 149), w |-> None,
                  frame |-> [w_ |-> Some(w_), E_ |-> Some(ein.E)]]

\* LinearModel.__init__ as [raised, self, frame].  asfarray says whether
\* the installed numpy still has np.asfarray (removed in numpy 2.0).
\* np.ones_like(self.X.shape[0]) is the 0-dimensional array 1, which
\* np.column_stack makes a (1, 1) column: stacking it beside self.X raises
\* ValueError unless self.X has exactly one row.
LinearModelInit(X, y, r, feat_trans, n_iter, debug, asfarray) ==
    LET base == BaseModelInit(X, y, feat_trans)
    IN  IF base.raised # NoError
        THEN [raised |-> base.raised, self |-> NoObj, frame |-> Unbound]
        ELSE IF ~asfarray
        THEN [raised |-> Raise("AttributeError", 122), self |-> NoObj,
              frame |-> Unbound]
        ELSE IF Len(base.self.X) # 1
        THEN [raised |-> Raise("ValueError", 123), self |-> NoObj,
              frame |-> Unbound]
        ELSE
        LET self == [cls |-> "LinearModel",
                     X |-> [i \in 1..Len(base.self.X) |->
                               <<1>> \o base.self.X[i]],
                     y |-> base.self.y,
                     feat_trans |-> base.self.feat_trans,
                     r |-> r, _debug |-> debug, _n_iter |-> n_iter]
            trained == _train_model(self)
        IN  IF trained.raised # NoError
            THEN [raised |-> trained.raised, self |-> NoObj,
                  frame |-> trained.frame]
            ELSE [raised |-> NoError,
                  self |-> [cls |-> "LinearModel", X |-> self.X, y |-> self.y,
                            feat_trans |-> self.feat_trans, r |-> r,
                            _debug |-> debug, _n_iter |-> n_iter,
                            w |-> trained.w[1]],
                  frame |-> trained.frame]

\* LinearModel._classify(x, w) as [raised, ret], for w None or a vector of
\* integers: np.dot of a float array and None raises TypeError, np.dot of
\* vectors of different lengths raises ValueError
_classify(x, w) ==
    IF w = None THEN [raised |-> Raise("TypeError", 220), ret |-> 0]
    ELSE IF Len(x) # Len(w[1])
    THEN [raised |-> Raise("ValueError", 220), ret |-> 0]
    ELSE [raised |-> NoError, ret |-> IF Dot(x, w[1]) >= 0 THEN 1 ELSE -1]

\* LinearModel.classify(x, w) as [raised, ret]
LinearClassify(self, x, w) ==
    IF self.feat_trans # "None" /\ FeatTransRaises(self.feat_trans, x)
    THEN [raised |-> Raise("NameError", 249), ret |-> 0]
    ELSE _classify(IF self.feat_trans # "None"
                   THEN FeatTransApply(self.feat_trans, x) ELSE x, w)

\* LinearModel.classify_all(X, w) as [raised, ret], for w None or an array
LinearClassifyAll(self, X, w) ==
    IF w # None /\ Len(w[1]) > 1
    THEN [raised |-> Raise("ValueError", 275), ret |-> <<>>]
    ELSE
    LET w_ == IF w # None THEN w[1] ELSE self.w
    IN  IF self.feat_trans # "None"
           /\ \E i \in 1..Len(X.rows) :
                 FeatTransRaises(self.feat_trans, X.rows[i])
        THEN [raised |-> Raise("NameError", 279), ret |-> <<>>]
        ELSE
        LET X_ == IF self.feat_trans # "None"
                  THEN [i \in 1..Len(X.rows) |->
                           FeatTransApply(self.feat_trans, X.rows[i])]
                  ELSE X.rows
            \* the columns of X_: np.array of an empty list of rows is the
            \* 1-dimensional empty array
            cols == IF self.feat_trans # "None" /\ X_ = <<>> THEN 0
                    ELSE IF X_ = <<>> THEN X.shape[2] ELSE Len(X_[1])
        IN  IF cols # Len(w_)
            THEN [raised |-> Raise("ValueError", 282), ret |-> <<>>]
            ELSE [raised |-> NoError,
                  ret |-> [i \in 1..Len(X_) |->
                              IF Dot(X_[i], w_) >= 0 THEN 1 ELSE -1]]

(***************************************************************************)
(* RBFModel.  A feature is the number 1, written [num |-> 1], or the       *)
(* value of the kernel at sqrt(n) / r, written [kern, sqrt, r].  The       *)
(* weight vector that line 502 solves for over such features is kept as    *)
(* the term [X, y] of the system it solves, and the labels of line 558-560 *)
(* as the term [X, w] of the product whose signs they are.                 *)
(***************************************************************************)
Number(c) == [num |-> c]

\* kern(z) for z = norm / r
KernApply(kern, norm, r) == [kern |-> kern, sqrt |-> norm.sqrt, r |-> r]

\* the loop of RBFModel._feat_trans: the features of centers i..len(Mu),
\* appended to z
RECURSIVE FeatLoop(_, _, _, _)
FeatLoop(self, x, i, z) ==
    IF i > Len(self.Mu) THEN z
    ELSE FeatLoop(self, x, i + 1,
            Append(z, KernApply(self.kern, Norm(VecSub(x, self.Mu[i])),
                                self.r)))

\* _feat_trans with z starting empty
_feat_trans_NoBias(self, x) == FeatLoop(self, x, 1, <<>>)

\* RBFModel._feat_trans(x)
_feat_trans(self, x) == FeatLoop(self, x, 1, <<Number(1)>>)

\* x - self.Mu[i] raises ValueError when the two do not broadcast
FeatTransFails(self, x) ==
    \E i \in 1..Len(self.Mu) : ~CanBroadcast(x, self.Mu[i])

\* RBFModel.__init__ as [raised, self].  singular says whether
\* np.linalg.inv finds the Gram matrix of the features singular.
RBFModelInit(X, y, Mu, kern, r, singular) ==
    LET base == BaseModelInit(X, y, "None")
    IN  IF base.raised # NoError THEN base
        ELSE
        LET self == [Mu |-> Mu, r |-> r,
                     kern |-> IF kern # "None" THEN kern
                              ELSE "_gaussian_kernel"]
        IN  IF \E i \in 1..Len(X.rows) : FeatTransFails(self, X.rows[i])
            THEN [raised |-> Raise("ValueError", 526), self |-> NoObj]
            ELSE
            LET Z == [i \in 1..Len(X.rows) |-> _feat_trans(self, X.rows[i])]
            IN  IF singular
                THEN [raised |-> Raise("LinAlgError", 502), self |-> NoObj]
                ELSE [raised |-> NoError,
                      self |-> [cls |-> "RBFModel", X |-> Z,
                                y |-> base.self.y, kern |-> self.kern,
                                Mu |-> Mu, r |-> r,
                                feat_trans |-> "_feat_trans",
                                w |-> [X |-> Z, y |-> base.self.y]]]

\* RBFModel.classify_all(X) as [raised, ret, frame]; frame holds the local
\* X after line 554
RBFClassifyAll(self, X) ==
    IF \E i \in 1..Len(X.rows) : FeatTransFails(self, X.rows[i])
    THEN [raised |-> Raise("NameError", 555), ret |-> None, frame |-> None]
    ELSE
    LET Z == [i \in 1..Len(X.rows) |-> _feat_trans(self, X.rows[i])]
    IN  IF Z = <<>>
        THEN [raised |-> Raise("ValueError", 558), ret |-> None,
              frame |-> Some(Z)]
        ELSE [raised |-> NoError, ret |-> Some([X |-> Z, w |-> self.w]),
              frame |-> Some(Z)]

(***************************************************************************)
(* The state: whether the module is imported, the instance a constructor   *)
(* returned, the call made last with its arguments, what it returned, what *)
(* it raised, and the locals of interest when it ended.                    *)
(***************************************************************************)
VARIABLES module, obj, call, ret, raised, frame

vars == <<module, obj, call, ret, raised, frame>>

NoCall == [op |-> "none"]
NoRet == [t |-> "none"]
NoFrame == [op |-> "none"]

Init ==
    /\ module = "unloaded"
    /\ obj = NoObj
    /\ call = NoCall
    /\ ret = NoRet
    /\ raised = NoError
    /\ frame = NoFrame

\* import models.  LinearModel.__init__ is annotated with numpy.ndarray, and
\* the module binds numpy only as np: an interpreter that evaluates the
\* annotations when it executes the def raises NameError, one that defers
\* them (PEP 649) imports the module.
Import ==
    /\ module = "unloaded"
    /\ \E deferred \in BOOLEAN :
          IF deferred
          THEN module' = "loaded" /\ raised' = NoError
          ELSE module' = "failed" /\ raised' = Raise("NameError", 93)
    /\ UNCHANGED <<obj, call, ret, frame>>

Idle == module = "loaded" /\ call = NoCall

Constructed(cls) == obj.cls = cls /\ call.op = cls

KArgs == {None} \cup {Some(n) : n \in 1..MaxRows}

\* the k passed to a batch method: omitted, or 1
BatchKArgs == {None, Some(1)}

Batches == {Matrix(rows, 1) : rows \in SeqsUpTo([1..1 -> BatchCoord], MaxBatch)}

\* kNNModel(X, y, k)
kNNModel_init ==
    /\ Idle
    /\ \E X \in XArgs, y \in YArgs, k \in 1..MaxRows :
          LET r == kNNModelInit(X, y, k)
          IN  /\ call' = [op |-> "kNNModel", X |-> X, y |-> y, k |-> k]
              /\ obj' = r.self
              /\ raised' = r.raised
    /\ UNCHANGED <<module, ret, frame>>

\* model.classify(x, k)
kNNModel_classify ==
    /\ Constructed("kNNModel")
    /\ \E x \in QueryPoints, k \in KArgs :
          LET r == kNNClassify(obj, x, k)
          IN  /\ call' = [op |-> "kNNModel.classify", x |-> x, k |-> k]
              /\ raised' = r.raised
              /\ ret' = IF r.raised = NoError
                        THEN [t |-> "label", v |-> r.ret] ELSE NoRet
    /\ UNCHANGED <<module, obj, frame>>

\* model.classify_all(X, k)
kNNModel_classify_all ==
    /\ Constructed("kNNModel")
    /\ \E X \in Batches, k \in BatchKArgs :
          LET r == kNNClassifyAll(obj, X, k)
          IN  /\ call' = [op |-> "kNNModel.classify_all", X |-> X, k |-> k]
              /\ raised' = r.raised
              /\ ret' = IF r.raised = NoError
                        THEN [t |-> "labels", v |-> r.ret] ELSE NoRet
    /\ UNCHANGED <<module, obj, frame>>

\* model.classification_error(X, y, k), for y as long as X
kNNModel_classification_error ==
    /\ Constructed("kNNModel")
    /\ \E X \in Batches, k \in BatchKArgs :
       \E es \in [1..Len(X.rows) -> Labels] :
          LET r == kNNClassificationError(obj, X, Vector(es), k)
          IN  /\ call' = [op |-> "kNNModel.classification_error", X |-> X,
                          y |-> Vector(es), k |-> k]
              /\ raised' = r.raised
              /\ ret' = IF r.raised # NoError THEN NoRet
                        ELSE IF r.ret.den = 0 THEN [t |-> "nan"]
                        ELSE [t |-> "quotient", num |-> r.ret.num,
                              den |-> r.ret.den]
    /\ UNCHANGED <<module, obj, frame>>

\* LinearModel(X, y, r, feat_trans, n_iter, debug), under a numpy that has
\* np.asfarray or one that has not (kept with the call's arguments)
LinearModel_init ==
    /\ Idle
    /\ \E X \in XArgs, y \in YArgs, r \in RegCoeffs, ft \in FeatTransNames,
          n_iter \in IterCounts, debug \in BOOLEAN, asfarray \in BOOLEAN :
          LET res == LinearModelInit(X, y, r, ft, n_iter, debug, asfarray)
          IN  /\ call' = [op |-> "LinearModel", X |-> X, y |-> y, r |-> r,
                          feat_trans |-> ft, n_iter |-> n_iter,
                          debug |-> debug, asfarray |-> asfarray]
              /\ obj' = res.self
              /\ raised' = res.raised
              /\ frame' = res.frame
    /\ UNCHANGED <<module, ret>>

MuArgs == {<<>>, << <<0>> >>, << <<-1>>, <<1>> >>}

\* RBFModel(X, y, Mu, kern, r)
RBFModel_init ==
    /\ Idle
    /\ \E X \in XArgs, y \in YArgs, Mu \in MuArgs, kern \in KernNames,
          r \in Scalings, singular \in BOOLEAN :
          LET res == RBFModelInit(X, y, Mu, kern, r, singular)
          IN  /\ call' = [op |-> "RBFModel", X |-> X, y |-> y, Mu |-> Mu,
                          kern |-> kern, r |-> r]
              /\ obj' = res.self
              /\ raised' = res.raised
    /\ UNCHANGED <<module, ret, frame>>

\* model.classify_all(X)
RBFModel_classify_all ==
    /\ Constructed("RBFModel")
    /\ \E X \in Batches :
          LET res == RBFClassifyAll(obj, X)
          IN  /\ call' = [op |-> "RBFModel.classify_all", X |-> X]
              /\ raised' = res.raised
              /\ ret' = IF res.raised = NoError
                        THEN [t |-> "signs", of |-> res.ret[1]] ELSE NoRet
              /\ frame' = [X |-> res.frame]
    /\ UNCHANGED <<module, obj>>

Next ==
    \/ Import
    \/ kNNModel_init
    \/ kNNModel_classify
    \/ kNNModel_classify_all
    \/ kNNModel_classification_error
    \/ LinearModel_init
    \/ RBFModel_init
    \/ RBFModel_classify_all

Spec == Init /\ [][Next]_vars

(***************************************************************************)
(* The methods of LinearModel, over the instances its attributes           *)
(* describe: a weight vector w of len(x) + 1 entries for points x of one   *)
(* feature, and a feature transformation.  No constructor call returns     *)
(* such an instance (see _train_model); SpecMethods starts the methods     *)
(* from the state they are written for.                                    *)
(***************************************************************************)
Weights == [1..2 -> QueryCoord]

LinearInstances ==
    {[cls |-> "LinearModel", X |-> << <<1, 1>> >>, y |-> <<1>>,
      feat_trans |-> ft, r |-> 0, _debug |-> FALSE, _n_iter |-> 0, w |-> w] :
        ft \in FeatTransNames, w \in Weights}

InitMethods ==
    /\ module = "loaded"
    /\ obj \in LinearInstances
    /\ call = NoCall
    /\ ret = NoRet
    /\ raised = NoError
    /\ frame = NoFrame

WArgs == {None} \cup {Some(w) : w \in Weights}

\* model.classify(x, w), for a point x or a point with the bias feature
LinearModel_classify ==
    /\ call = NoCall
    /\ \E x \in QueryPoints \cup {<<1>> \o p : p \in QueryPoints},
          w \in WArgs :
          LET res == LinearClassify(obj, x, w)
          IN  /\ call' = [op |-> "LinearModel.classify", x |-> x, w |-> w]
              /\ raised' = res.raised
              /\ ret' = IF res.raised = NoError
                        THEN [t |-> "label", v |-> res.ret] ELSE NoRet
    /\ UNCHANGED <<module, obj, frame>>

AugmentedBatches ==
    {Matrix([i \in 1..Len(B.rows) |-> <<1>> \o B.rows[i]], 2) : B \in Batches}

\* model.classify_all(X, w), for rows X or rows with the bias feature
LinearModel_classify_all ==
    /\ call = NoCall
    /\ \E X \in Batches \cup AugmentedBatches, w \in WArgs :
          LET res == LinearClassifyAll(obj, X, w)
          IN  /\ call' = [op |-> "LinearModel.classify_all", X |-> X,
                          w |-> w]
              /\ raised' = res.raised
              /\ ret' = IF res.raised = NoError
                        THEN [t |-> "labels", v |-> res.ret] ELSE NoRet
    /\ UNCHANGED <<module, obj, frame>>

NextMethods ==
    \/ LinearModel_classify
    \/ LinearModel_classify_all

SpecMethods == InitMethods /\ [][NextMethods]_vars

(***************************************************************************)
(* Properties.                                                             *)
(***************************************************************************)
IsConstructorCall == call.op \in {"kNNModel", "LinearModel", "RBFModel"}

\* X is rank-2, y is rank-1 and rows(X) = len(y)
ValidShapes(X, y) ==
    /\ X.ok /\ y.ok
    /\ Len(X.shape) = 2
    /\ Len(y.shape) = 1
    /\ X.shape[1] = y.shape[1]

\* the lines of BaseModel.__init__ that raise the shape error
ShapeErrorLines == {47, 48, 51, 54, 57}

ShapeErrorRaised ==
    raised.type = "ValueError" /\ raised.line \in ShapeErrorLines

\* C1: a constructor call with X of rank 2, y of rank 1 and as many rows as
\* labels gets past the validation of BaseModel.__init__ (and, for kNNModel,
\* returns an instance storing exactly X and y); every other call raises
\* the ValueError of the validation and returns no instance.
C1_ShapeValidation ==
    IsConstructorCall =>
        IF ValidShapes(call.X, call.y)
        THEN /\ ~ShapeErrorRaised
             /\ call.op = "kNNModel" =>
                   /\ raised = NoError
                   /\ obj.cls = "kNNModel"
                   /\ obj.X = call.X.rows
                   /\ obj.y = call.y.es
        ELSE ShapeErrorRaised /\ obj = NoObj

\* a constructor was given a matrix and a label vector of different lengths
C1_Witness ==
    /\ call.op = "kNNModel"
    /\ Len(call.X.shape) = 2
    /\ Len(call.y.shape) = 1
    /\ call.X.shape[1] = 2
    /\ call.y.shape[1] = 1
    /\ raised = Raise("ValueError", 57)

\* the supplied transformation raises on a row of X
TransformRaisesOn(ft, rows) ==
    ft # "None" /\ \E i \in 1..Len(rows) : FeatTransRaises(ft, rows[i])

\* C2: when the supplied feature transformation raises on a row during
\* construction, the call fails with the ValueError 'Feature transform
\* failed' of line 64 and returns no instance.
C2_TransformErrorIsValueError ==
    (/\ call.op = "LinearModel"
     /\ ValidShapes(call.X, call.y)
     /\ TransformRaisesOn(call.feat_trans, call.X.rows))
        => raised = Raise("ValueError", 64) /\ obj = NoObj

\* a LinearModel call with arguments the constructor documents as valid,
\* under the numpy the code is written for
ValidTrainingCall ==
    /\ call.op = "LinearModel"
    /\ call.asfarray
    /\ ValidShapes(call.X, call.y)
    /\ Len(call.X.rows) >= 1
    /\ ~TransformRaisesOn(call.feat_trans, call.X.rows)
    /\ call.r > 0

\* a / b <= c / d for quotients of positive denominators
QuotientLeq(p, q) == p.num * q.den <= q.num * p.den

\* the training points that the weight vector w labels wrongly
Misclassified(X, y, w) ==
    Cardinality({i \in 1..Len(X) :
        (IF Dot(X[i], w.num) * w.den >= 0 THEN 1 ELSE -1) # y[i]})

\* the training matrix of a call: transformed rows with the bias feature
TrainingRows(c) ==
    [i \in 1..Len(c.X.rows) |->
        <<1>> \o (IF c.feat_trans # "None"
                  THEN FeatTransApply(c.feat_trans, c.X.rows[i])
                  ELSE c.X.rows[i])]

\* C3: training keeps a pocket (w_, E_): once the regression weight w_lin
\* is computed the pocket holds it with E_ = E_in(w_lin), and E_ never
\* rises above that value.
C3_PocketInvariant ==
    (call.op = "LinearModel" /\ frame.w_ # None) =>
        /\ frame.E_ # None
        /\ QuotientLeq(frame.E_[1],
              [num |-> Misclassified(TrainingRows(call), call.y.es,
                                     frame.w_[1])
                           * frame.w_[1].den * frame.w_[1].den
                         + call.r * Dot(frame.w_[1].num, frame.w_[1].num),
               den |-> frame.w_[1].den * frame.w_[1].den])

\* C4: after training, the final weight vector labels no more training
\* points wrongly than the regression weight w_lin does.
C4_PocketNeverWorse ==
    ValidTrainingCall =>
        /\ obj.cls = "LinearModel"
        /\ Misclassified(obj.X, obj.y, obj.w)
              <= Misclassified(obj.X, obj.y, frame.w_[1])

\* C5: training ends for every valid training set and every n_iter >= 0,
\* and the constructor returns an instance whose weight vector is the
\* pocket weight.
C5_TrainingReturnsPocket ==
    ValidTrainingCall =>
        /\ raised = NoError
        /\ "w" \in DOMAIN obj
        /\ frame.w_ = Some(obj.w)

\* C6: classify(x) with w not supplied transforms x, puts the bias feature
\* 1 in front and returns +1 if the model's weight vector times the result
\* is >= 0, and -1 otherwise.
C6_ClassifyWithModelWeight ==
    (/\ call.op = "LinearModel.classify"
     /\ call.w = None
     /\ Len(call.x) = 1
     /\ ~TransformRaisesOn(obj.feat_trans, <<call.x>>))
        => /\ raised = NoError
           /\ ret = [t |-> "label",
                     v |-> IF Dot(<<1>> \o (IF obj.feat_trans # "None"
                                            THEN FeatTransApply(
                                                    obj.feat_trans, call.x)
                                            ELSE call.x),
                                  obj.w) >= 0
                           THEN 1 ELSE -1]

\* the square of the distance from the query of the last call to training
\* point i
SqDist(i) == NormSq(VecSub(call.x, obj.X[i]))

\* the k in force in the last call of classify
KUsed == IF call.k = None THEN obj.k ELSE call.k[1]

\* +1 if the labels of the training points in S sum to >= 0, else -1
Majority(S) ==
    IF Cardinality({i \in S : obj.y[i] = 1})
           >= Cardinality({i \in S : obj.y[i] = -1})
    THEN 1 ELSE -1

\* S is a set of k training points with no training point outside it
\* nearer to the query than one inside
KNearest(S, k) ==
    /\ Cardinality(S) = k
    /\ \A i \in S : \A j \in (1..Len(obj.X)) \ S : SqDist(i) <= SqDist(j)

\* C7: for 1 <= k <= number of training points, classify(x, k) returns +1
\* if the labels of k nearest training points sum to >= 0 and -1 otherwise
\* (so +1 on a sum of 0), with the model's k when k is omitted.
C7_MajorityOfNearest ==
    (call.op = "kNNModel.classify" /\ KUsed <= Len(obj.X)) =>
        /\ raised = NoError
        /\ \E S \in SUBSET (1..Len(obj.X)) :
              KNearest(S, KUsed) /\ ret = [t |-> "label", v |-> Majority(S)]

\* classify with k omitted and the model's k = 2 on two training points of
\* opposite labels: the labels sum to 0 and the result is +1
C7_Witness ==
    /\ call.op = "kNNModel.classify"
    /\ call.k = None
    /\ obj.k = 2
    /\ obj.y = <<-1, 1>>
    /\ ret = [t |-> "label", v |-> 1]

\* the rows of the last call's X whose predicted label differs from y
Disagreements ==
    {i \in 1..Len(call.X.rows) :
        kNNClassify(obj, call.X.rows[i], call.k).ret # call.y.es[i]}

\* the result is Disagreements / len(y), a number in [0, 1]
ErrorIsFraction ==
    /\ raised = NoError
    /\ ret = [t |-> "quotient", num |-> Cardinality(Disagreements),
              den |-> Len(call.y.es)]
    /\ 0 <= ret.num /\ ret.num <= ret.den

\* C8 as claimed: for every X and y of the same length,
\* classification_error is (rows predicted wrongly) / len(y), in [0, 1].
C8_ErrorIsFractionForAll ==
    call.op = "kNNModel.classification_error" => ErrorIsFraction

\* C8 as amended: for every X and y of the same length >= 1,
\* classification_error is (rows predicted wrongly) / len(y), in [0, 1]
\* (and 0 when no row is predicted wrongly); for the empty X it is nan.
C8_ErrorIsFractionForNonEmpty ==
    call.op = "kNNModel.classification_error" =>
        IF Len(call.y.es) >= 1 THEN ErrorIsFraction
        ELSE raised = NoError /\ ret = [t |-> "nan"]

\* one of two rows was predicted wrongly
C8_Witness ==
    /\ call.op = "kNNModel.classification_error"
    /\ ret = [t |-> "quotient", num |-> 1, den |-> 2]

\* the features of point x under the model m: 1, then for each center in
\* order the kernel at distance(x, center) / r
ExpectedFeatures(m, x) ==
    [j \in 1..(Len(m.Mu) + 1) |->
        IF j = 1 THEN Number(1)
        ELSE [kern |-> m.kern, sqrt |-> NormSq(VecSub(x, m.Mu[j - 1])),
              r |-> m.r]]

\* C9: the RBF feature transformation of a point has len(Mu) + 1 entries,
\* the first 1 and entry i + 1 the kernel at distance(x, Mu[i]) / r; the
\* constructor stores it for every training row and classify_all applies
\* it to every row it is given.
C9_FeatureTransform ==
    /\ (call.op = "RBFModel" /\ raised = NoError) =>
          /\ Len(obj.X) = Len(call.X.rows)
          /\ \A i \in 1..Len(obj.X) :
                /\ obj.X[i] = ExpectedFeatures(obj, call.X.rows[i])
                /\ Len(obj.X[i]) = Len(call.Mu) + 1
                /\ obj.X[i][1] = Number(1)
    /\ (call.op = "RBFModel.classify_all" /\ frame.X # None) =>
          /\ Len(frame.X[1]) = Len(call.X.rows)
          /\ \A i \in 1..Len(call.X.rows) :
                /\ frame.X[1][i] = ExpectedFeatures(obj, call.X.rows[i])
                /\ Len(frame.X[1][i]) = Len(obj.Mu) + 1
                /\ frame.X[1][i][1] = Number(1)

\* classify_all transformed two rows under a model of two centers and the
\* default kernel
C9_Witness ==
    /\ call.op = "RBFModel.classify_all"
    /\ raised = NoError
    /\ Len(call.X.rows) = 2
    /\ Len(obj.Mu) = 2
    /\ obj.kern = "_gaussian_kernel"
    /\ Len(obj.X) = 2

\* training point j comes before training point i when ties in distance
\* are broken by training order
BeforeByIndex(j, i) ==
    \/ SqDist(j) < SqDist(i)
    \/ SqDist(j) = SqDist(i) /\ j < i

\* training point j comes before training point i when ties in distance
\* are broken by label, and ties in both by training order
BeforeByLabel(j, i) ==
    \/ SqDist(j) < SqDist(i)
    \/ SqDist(j) = SqDist(i) /\ obj.y[j] < obj.y[i]
    \/ SqDist(j) = SqDist(i) /\ obj.y[j] = obj.y[i] /\ j < i

\* C10 as claimed: the k nearest are the first k training points by
\* ascending distance, points at equal distance taken in training order.
C10_TiesByTrainingOrder ==
    (call.op = "kNNModel.classify" /\ KUsed <= Len(obj.X)) =>
        ret = [t |-> "label",
               v |-> Majority({i \in 1..Len(obj.X) :
                        Cardinality({j \in 1..Len(obj.X) :
                            BeforeByIndex(j, i)}) < KUsed})]

\* C10 as amended: the k nearest are the first k training points by
\* ascending distance, points at equal distance taken by ascending label
\* (-1 before +1) and points equal in both in training order.
C10_TiesByLabel ==
    (call.op = "kNNModel.classify" /\ KUsed <= Len(obj.X)) =>
        ret = [t |-> "label",
               v |-> Majority({i \in 1..Len(obj.X) :
                        Cardinality({j \in 1..Len(obj.X) :
                            BeforeByLabel(j, i)}) < KUsed})]

\* k = 1 and two training points at the same distance from the query, the
\* first labelled +1 and the second -1: the second one votes
C10_Witness ==
    /\ call.op = "kNNModel.classify"
    /\ KUsed = 1
    /\ Len(obj.X) = 2
    /\ SqDist(1) = SqDist(2)
    /\ obj.y = <<1, -1>>
    /\ ret = [t |-> "label", v |-> -1]
=============================================================================
